---------------------------- MODULE Spec2Model ----------------------------
(***************************************************************************)
(* A model of the ALB ingress controller's sync cycle                      *)
(* (ALBController.OnUpdate, ingressToDelete, StateHandler,                 *)
(* AssembleIngresses) and of the helper Chunk of pkg/util/types.           *)
(*                                                                         *)
(* An ALBIngress is a record                                               *)
(*   [id, Tainted, LoadBalancer, DesiredSpec]                              *)
(* id is the identity (namespace/name), LoadBalancer is Nil or the         *)
(* configuration the external load balancer currently has, DesiredSpec is  *)
(* Nil or the configuration the declaration asks for.                      *)
(***************************************************************************)
EXTENDS Integers, Sequences, FiniteSets, TLC

VARIABLES
    ALBIngresses,   \* ac.ALBIngresses, the list the controller and its readers see
    pc,             \* position of the OnUpdate invocation
    listing,        \* ac.storeLister.Ingress.List() of the current cycle
    newList,        \* the local ALBIngresses of OnUpdate
    deletable,      \* the result of ingressToDelete in the current cycle
    tasks,          \* status of the reconcile goroutine of each list index
    calls,          \* external calls issued in the current cycle: <<id, op>>
    failed,         \* ids whose reconcile failed in the current cycle
    prevSet,        \* ac.ALBIngresses as it was when the cycle started
    repeat,         \* the store is as the cycle that just returned listed it,
                    \* and every reconcile of that cycle succeeded
    w,              \* the response StateHandler is writing, if any
    wBusy,          \* ids of that response whose reconcile had not finished
    loadBalancers,  \* AssembleIngresses: what GetClusterLoadBalancers returned
    ingresses,      \* AssembleIngresses: the list the goroutines append to
    seen,           \* AssembleIngresses: the list each goroutine's append read
    apc,            \* AssembleIngresses: position of each goroutine
    asm,            \* AssembleIngresses: position of the function itself
    cs,             \* Chunk: the slice s
    csize,          \* Chunk: the parameter size
    chunkSize,      \* Chunk: the local chunkSize
    ci,             \* Chunk: the loop variable i (0-based as in the source)
    chunks,         \* Chunk: the local chunks
    cpc,            \* Chunk: position ("call", "loop", "done", "panic")
    ha,             \* Hash: the slice a on which Hash is called (twice)
    hb,             \* Hash: a second slice on which Hash is called
    ha0,            \* Hash: a as it was before the first call
    hb0,            \* Hash: b as it was before the call
    hda,            \* Hash: what a.Hash() returned, <<>> before the call
    hdb,            \* Hash: what b.Hash() returned, <<>> before the call
    hda2,           \* Hash: what the second a.Hash() returned
    hpc,            \* Hash: position ("a", "b", "again", "done")
    store,          \* GetServiceNodePort: ac.storeLister.Service, by key
    store0,         \* GetServiceNodePort: the store before the call
    gkey,           \* GetServiceNodePort: the parameter serviceKey
    gport,          \* GetServiceNodePort: the parameter backendPort
    gres,           \* GetServiceNodePort: what the call returned
    gpc,            \* GetServiceNodePort: position ("call", "done")
    heap,           \* two invocations: the ALBIngress each pointer points to
    inv,            \* two invocations: position and locals of each invocation
    order,          \* two invocations: the invocations in the order of line 133
    ac0,            \* two invocations: ac.ALBIngresses before either started
    concurrent,     \* two invocations: one started before the other returned
    outstanding     \* two invocations: one used ac.ALBIngresses between the
                    \* diff and the return of the other

syncVars == <<pc, listing, newList, deletable, tasks, calls, failed, prevSet,
              repeat>>
readVars == <<w, wBusy>>
asmVars == <<loadBalancers, ingresses, seen, apc, asm>>
chunkVars == <<cs, csize, chunkSize, ci, chunks, cpc>>
hashVars == <<ha, hb, ha0, hb0, hda, hdb, hda2, hpc>>
svcVars == <<store, store0, gkey, gport, gres, gpc>>
ovlVars == <<heap, inv, order, ac0, concurrent, outstanding>>
restVars == <<hashVars, svcVars, ovlVars>>

vars == <<ALBIngresses, syncVars, readVars, asmVars, chunkVars, restVars>>

\* Hash and GetServiceNodePort are not being called.
HashIdle ==
    /\ ha = <<>>
    /\ hb = <<>>
    /\ ha0 = <<>>
    /\ hb0 = <<>>
    /\ hda = <<>>
    /\ hdb = <<>>
    /\ hda2 = <<>>
    /\ hpc = "done"

SvcIdle ==
    /\ store = <<>>
    /\ store0 = <<>>
    /\ gkey = ""
    /\ gport = 0
    /\ gres = <<>>
    /\ gpc = "done"

\* No second invocation of OnUpdate is being followed.
OvlIdle ==
    /\ heap = <<>>
    /\ inv = <<>>
    /\ order = <<>>
    /\ ac0 = <<>>
    /\ concurrent = FALSE
    /\ outstanding = FALSE

RestIdle == HashIdle /\ SvcIdle /\ OvlIdle

(***************************************************************************)
(* Bounds of the model.                                                    *)
(***************************************************************************)
NumIds == 3
MaxSpec == 1
MaxLen == 4
MaxSize == 5
MaxStrLen == 1
MaxHashLen == 2
MaxPorts == 2

Nil == 0
Ids == 1..NumIds
Specs == 1..MaxSpec
\* The configurations an external load balancer can have: those the
\* declarations ask for, and one more that none asks for.
Configs == 1..(MaxSpec + 1)

(***************************************************************************)
(* Package albingress (pkg/ingress): the ALBIngress type and its list.     *)
(***************************************************************************)
NewALBIngress(id) ==
    [id |-> id, Tainted |-> FALSE, LoadBalancer |-> Nil, DesiredSpec |-> Nil]

\* ALBIngressesT.Find: index of the entry with the identity of ing, or -1.
Find(list, ing) ==
    IF \E k \in 1..Len(list) : list[k].id = ing.id
    THEN CHOOSE k \in 1..Len(list) :
             /\ list[k].id = ing.id
             /\ \A j \in 1..(k - 1) : list[j].id # ing.id
    ELSE -1

StripDesiredState(ing) == [ing EXCEPT !.DesiredSpec = Nil]

\* A declaration of the store: its identity, whether its ingress class is
\* this controller's, the configuration it asks for, and how building an
\* ALBIngress from it ends ("ok", "err": returned with an error, "nil":
\* nothing returned).
Decl(id, k) ==
    [id |-> id,
     class |-> (k # 1),
     build |-> IF k = 2 THEN "nil" ELSE IF k = 3 THEN "err" ELSE "ok",
     spec |-> IF k > 3 THEN k - 3 ELSE 1]

\* class.IsValid(ingResource, ac.IngressClass, ac.DefaultIngressClass())
IsValid(d) == d.class

\* NewALBIngressFromIngress: a fresh ALBIngress for the declaration, given
\* the state (LoadBalancer) of the existing ingress of the same identity.
NewALBIngressFromIngress(d, ExistingIngresses) ==
    LET fresh == NewALBIngress(d.id)
        i == Find(ExistingIngresses, fresh)
        base == IF i >= 1
                THEN [fresh EXCEPT !.LoadBalancer = ExistingIngresses[i].LoadBalancer]
                ELSE fresh
    IN  [isNil |-> (d.build = "nil"),
         err |-> (d.build # "ok"),
         ing |-> IF d.build = "ok" THEN [base EXCEPT !.DesiredSpec = d.spec]
                 ELSE base]

\* ALBIngress.Reconcile: compares DesiredSpec with LoadBalancer and issues
\* the create, modify or delete call that is needed; the LoadBalancer is
\* updated when the call succeeds.  A tainted ingress is not applied.
ReconcileOp(ing) ==
    IF ing.Tainted THEN "none"
    ELSE IF ing.DesiredSpec = Nil
         THEN (IF ing.LoadBalancer = Nil THEN "none" ELSE "delete")
         ELSE IF ing.LoadBalancer = Nil THEN "create"
              ELSE IF ing.LoadBalancer # ing.DesiredSpec THEN "modify"
                   ELSE "none"

Reconcile(ing, ok) ==
    IF ReconcileOp(ing) = "none" \/ ~ok THEN ing
    ELSE [ing EXCEPT !.LoadBalancer = ing.DesiredSpec]

(***************************************************************************)
(* ALBController.OnUpdate, lines 97-121: the new list of this invocation.  *)
(***************************************************************************)
RECURSIVE BuildListNoTaint(_, _, _)
\* BuildList without the assignment of Tainted (lines 116-118).
BuildListNoTaint(list, existing, acc) ==
    IF list = <<>> THEN acc
    ELSE LET d == Head(list)
             r == NewALBIngressFromIngress(d, existing)
         IN  IF ~IsValid(d) THEN BuildListNoTaint(Tail(list), existing, acc)
             ELSE IF r.isNil THEN BuildListNoTaint(Tail(list), existing, acc)
             ELSE BuildListNoTaint(Tail(list), existing, Append(acc, r.ing))

RECURSIVE BuildList(_, _, _)
BuildList(list, existing, acc) ==
    IF list = <<>> THEN acc
    ELSE LET d == Head(list)
             r == NewALBIngressFromIngress(d, existing)
         IN  IF ~IsValid(d) THEN BuildList(Tail(list), existing, acc)
             ELSE IF r.isNil THEN BuildList(Tail(list), existing, acc)
             ELSE BuildList(Tail(list), existing,
                     Append(acc, IF r.err THEN [r.ing EXCEPT !.Tainted = TRUE]
                                 ELSE r.ing))

(***************************************************************************)
(* ALBController.ingressToDelete.                                          *)
(***************************************************************************)
\* Qualifies with the lookup in the new list left out.
QualifiesNoFind(ingress, list) ==
    /\ ~ingress.Tainted
    /\ ingress.LoadBalancer # Nil

\* Qualifies with the test of Tainted left out.
QualifiesNoTaint(ingress, list) ==
    /\ Find(list, ingress) < 0
    /\ ingress.LoadBalancer # Nil

\* Qualifies with the test of the LoadBalancer left out.
QualifiesNoHandle(ingress, list) ==
    /\ ~ingress.Tainted
    /\ Find(list, ingress) < 0

\* Whether the loop body appends the ingress to deleteableIngress.
Qualifies(ingress, list) ==
    /\ ~ingress.Tainted
    /\ Find(list, ingress) < 0
    /\ ingress.LoadBalancer # Nil

RECURSIVE ingressToDeleteBreak(_, _)
\* ingressToDelete leaving the loop at a tainted ingress instead of going on.
ingressToDeleteBreak(existing, list) ==
    IF existing = <<>> THEN <<>>
    ELSE IF Head(existing).Tainted THEN <<>>
    ELSE IF Find(list, Head(existing)) < 0 /\ Head(existing).LoadBalancer # Nil
         THEN <<StripDesiredState(Head(existing))>>
                  \o ingressToDeleteBreak(Tail(existing), list)
         ELSE ingressToDeleteBreak(Tail(existing), list)

RECURSIVE ingressToDelete(_, _)
ingressToDelete(existing, list) ==
    IF existing = <<>> THEN <<>>
    ELSE IF Qualifies(Head(existing), list)
         THEN <<StripDesiredState(Head(existing))>>
                  \o ingressToDelete(Tail(existing), list)
         ELSE ingressToDelete(Tail(existing), list)

\* The entries of ac.ALBIngresses are pointers: StripDesiredState acts on
\* the ingress the previous list still holds.
StrippedInPlace(existing, list) ==
    [k \in 1..Len(existing) |->
        IF Qualifies(existing[k], list) THEN StripDesiredState(existing[k])
        ELSE existing[k]]

(***************************************************************************)
(* Inputs of the model.                                                    *)
(***************************************************************************)
RECURSIVE SeqOf(_, _)
\* The declarations f chooses for the identities n..NumIds, in order
\* (f[i] = 0: the store holds no declaration of identity i).
SeqOf(f, n) ==
    IF n > NumIds THEN <<>>
    ELSE IF f[n] = 0 THEN SeqOf(f, n + 1)
         ELSE <<Decl(n, f[n])>> \o SeqOf(f, n + 1)

\* What ac.storeLister.Ingress.List() can return: at most one declaration
\* for each identity.
Listings == {SeqOf(f, 1) : f \in [Ids -> 0..(3 + MaxSpec)]}

RECURSIVE Discovered(_, _, _)
\* The ingresses AssembleIngresses builds from the load balancers of the
\* identities of S, each found with configuration c.
Discovered(S, n, c) ==
    IF n > NumIds THEN <<>>
    ELSE IF n \in S
         THEN <<[NewALBIngress(n) EXCEPT !.LoadBalancer = c]>>
                  \o Discovered(S, n + 1, c)
         ELSE Discovered(S, n + 1, c)

IdsOf(list) == {list[k].id : k \in 1..Len(list)}

(***************************************************************************)
(* The controller: one OnUpdate invocation at a time, and the readers.     *)
(***************************************************************************)
Init ==
    /\ ALBIngresses \in {Discovered(S, 1, c) : S \in SUBSET Ids, c \in Configs}
    /\ pc = "idle"
    /\ listing = <<>>
    /\ newList = <<>>
    /\ deletable = <<>>
    /\ tasks = <<>>
    /\ calls = {}
    /\ failed = {}
    /\ prevSet = <<>>
    /\ repeat = FALSE
    /\ w = <<>>
    /\ wBusy = {}
    /\ loadBalancers = <<>>
    /\ ingresses = <<>>
    /\ seen = <<>>
    /\ apc = <<>>
    /\ asm = "done"
    /\ cs = <<>>
    /\ csize = 1
    /\ chunkSize = 0
    /\ ci = 0
    /\ chunks = <<>>
    /\ cpc = "done"
    /\ RestIdle

\* OnUpdate, lines 94-121.
Build ==
    /\ pc = "idle"
    /\ \E l \in (IF repeat THEN {listing} ELSE Listings) :
          /\ listing' = l
          /\ newList' = BuildList(l, ALBIngresses, <<>>)
    /\ prevSet' = ALBIngresses
    /\ pc' = "diff"
    /\ UNCHANGED <<restVars, ALBIngresses, deletable, tasks, calls, failed, repeat, readVars,
                   asmVars, chunkVars>>

\* Diff without the append of lines 127-129.
DiffNoAppend ==
    /\ pc = "diff"
    /\ deletable' = ingressToDelete(ALBIngresses, newList)
    /\ newList' = newList
    /\ ALBIngresses' = StrippedInPlace(ALBIngresses, newList)
    /\ pc' = "commit"
    /\ UNCHANGED <<restVars, listing, tasks, calls, failed, prevSet, repeat, readVars,
                   asmVars, chunkVars>>

\* OnUpdate, lines 123-129.
Diff ==
    /\ pc = "diff"
    /\ deletable' = ingressToDelete(ALBIngresses, newList)
    /\ newList' = newList \o deletable'
    /\ ALBIngresses' = StrippedInPlace(ALBIngresses, newList)
    /\ pc' = "commit"
    /\ UNCHANGED <<restVars, listing, tasks, calls, failed, prevSet, repeat, readVars,
                   asmVars, chunkVars>>

\* Commit without the assignment of line 133.
CommitNothing ==
    /\ pc = "commit"
    /\ pc' = "spawn"
    /\ UNCHANGED <<restVars, ALBIngresses, listing, newList, deletable, tasks, calls,
                   failed, prevSet, repeat, readVars, asmVars, chunkVars>>

\* OnUpdate, lines 131-133.
Commit ==
    /\ pc = "commit"
    /\ ALBIngresses' = newList
    /\ pc' = "spawn"
    /\ UNCHANGED <<restVars, listing, newList, deletable, tasks, calls, failed, prevSet,
                   repeat, readVars, asmVars, chunkVars>>

\* OnUpdate, lines 137-144: one goroutine for each entry of ac.ALBIngresses.
Spawn ==
    /\ pc = "spawn"
    /\ tasks' = [k \in 1..Len(ALBIngresses) |-> "ready"]
    /\ pc' = "wait"
    /\ UNCHANGED <<restVars, ALBIngresses, listing, newList, deletable, calls, failed,
                   prevSet, repeat, readVars, asmVars, chunkVars>>

\* The goroutine of entry k, lines 140-143: ingress.Reconcile issues the
\* call it needs, which succeeds or fails, and wg.Done() follows.
ReconcileTask(k) ==
    /\ pc = "wait"
    /\ tasks[k] = "ready"
    /\ \E ok \in BOOLEAN :
          /\ ALBIngresses' = [ALBIngresses EXCEPT ![k] = Reconcile(@, ok)]
          /\ failed' = IF ~ok /\ ReconcileOp(ALBIngresses[k]) # "none"
                       THEN failed \cup {ALBIngresses[k].id} ELSE failed
    /\ calls' = IF ReconcileOp(ALBIngresses[k]) = "none" THEN calls
                ELSE calls \cup {<<ALBIngresses[k].id, ReconcileOp(ALBIngresses[k])>>}
    /\ tasks' = [tasks EXCEPT ![k] = "done"]
    /\ UNCHANGED <<restVars, pc, listing, newList, deletable, prevSet, repeat, readVars,
                   asmVars, chunkVars>>

\* Return without the wg.Wait() of line 145.
ReturnNoWait ==
    /\ pc = "wait"
    /\ pc' = "idle"
    /\ repeat' = FALSE
    /\ listing' = <<>>
    /\ newList' = <<>>
    /\ deletable' = <<>>
    /\ tasks' = <<>>
    /\ calls' = {}
    /\ failed' = {}
    /\ prevSet' = <<>>
    /\ UNCHANGED <<restVars, ALBIngresses, readVars, asmVars, chunkVars>>

\* OnUpdate, lines 145-147: wg.Wait() and return nil.  The locals of the
\* invocation end with it.  The store either stays as this cycle listed it
\* until the next cycle (recorded in repeat when every reconcile succeeded)
\* or changes.
Return ==
    /\ pc = "wait"
    /\ \A k \in 1..Len(tasks) : tasks[k] = "done"
    /\ pc' = "idle"
    /\ \/ failed = {} /\ repeat' = TRUE /\ listing' = listing
       \/ repeat' = FALSE /\ listing' = <<>>
    /\ newList' = <<>>
    /\ deletable' = <<>>
    /\ tasks' = <<>>
    /\ calls' = {}
    /\ failed' = {}
    /\ prevSet' = <<>>
    /\ UNCHANGED <<restVars, ALBIngresses, readVars, asmVars, chunkVars>>

\* The ids of ac.ALBIngresses whose reconcile of the current cycle has not
\* finished.
Unreconciled ==
    IF pc = "spawn" THEN IdsOf(ALBIngresses)
    ELSE IF pc = "wait"
         THEN {ALBIngresses[k].id : k \in {j \in 1..Len(tasks) : tasks[j] # "done"}}
         ELSE {}

\* StateHandler, lines 273-276: encodes ac.ALBIngresses into the response.
StateHandler ==
    /\ w = <<>>
    /\ w' = <<ALBIngresses>>
    /\ wBusy' = Unreconciled
    /\ UNCHANGED <<restVars, ALBIngresses, syncVars, asmVars, chunkVars>>

\* The response has been written out: the request is over.
Respond ==
    /\ w # <<>>
    /\ w' = <<>>
    /\ wBusy' = {}
    /\ UNCHANGED <<restVars, ALBIngresses, syncVars, asmVars, chunkVars>>

Next ==
    \/ Build
    \/ Diff
    \/ Commit
    \/ Spawn
    \/ \E k \in 1..Len(tasks) : ReconcileTask(k)
    \/ Return

Spec == Init /\ [][Next]_vars

\* The controller with its status endpoint: requests are served one at a
\* time, each between two steps of the controller.
NextStatus ==
    \/ w = <<>> /\ Next
    \/ StateHandler
    \/ Respond

SpecStatus == Init /\ [][NextStatus]_vars

(***************************************************************************)
(* ALBController.AssembleIngresses.                                        *)
(***************************************************************************)
\* NewALBIngressFromAWSLoadBalancer: the ingress of a discovered load
\* balancer lb = [id, config]; it has no desired state.
NewALBIngressFromAWSLoadBalancer(lb) ==
    [NewALBIngress(lb.id) EXCEPT !.LoadBalancer = lb.config]

RECURSIVE ClusterLoadBalancers(_, _, _)
\* What elbv2.ELBV2svc.GetClusterLoadBalancers can return: the load
\* balancers of the identities of S, each with configuration c.
ClusterLoadBalancers(S, n, c) ==
    IF n > NumIds THEN <<>>
    ELSE IF n \in S
         THEN <<[id |-> n, config |-> c]>> \o ClusterLoadBalancers(S, n + 1, c)
         ELSE ClusterLoadBalancers(S, n + 1, c)

InitAssemble ==
    /\ ALBIngresses = <<>>
    /\ pc = "idle"
    /\ listing = <<>>
    /\ newList = <<>>
    /\ deletable = <<>>
    /\ tasks = <<>>
    /\ calls = {}
    /\ failed = {}
    /\ prevSet = <<>>
    /\ repeat = FALSE
    /\ w = <<>>
    /\ wBusy = {}
    /\ loadBalancers \in {ClusterLoadBalancers(S, 1, c) : S \in SUBSET Ids, c \in Configs}
    /\ ingresses = <<>>
    /\ seen = <<>>
    /\ apc = <<>>
    /\ asm = "start"
    /\ cs = <<>>
    /\ csize = 1
    /\ chunkSize = 0
    /\ ci = 0
    /\ chunks = <<>>
    /\ cpc = "done"
    /\ RestIdle

\* Lines 281-292: wg.Add and one goroutine for each load balancer.
AsmSpawn ==
    /\ asm = "start"
    /\ apc' = [k \in 1..Len(loadBalancers) |-> "new"]
    /\ seen' = [k \in 1..Len(loadBalancers) |-> <<>>]
    /\ asm' = "wait"
    /\ UNCHANGED <<restVars, ALBIngresses, syncVars, readVars, loadBalancers, ingresses,
                   chunkVars>>

\* Lines 295-302: goroutine k builds its ingress; an error ends the process
\* (logger.Fatalf).
AsmBuild(k) ==
    /\ asm = "wait"
    /\ apc[k] = "new"
    /\ \/ apc' = [apc EXCEPT ![k] = "built"] /\ asm' = asm
       \/ apc' = apc /\ asm' = "fatal"
    /\ UNCHANGED <<restVars, ALBIngresses, syncVars, readVars, loadBalancers, ingresses,
                   seen, chunkVars>>

\* Line 304, first half: append reads the shared slice ingresses.
AsmRead(k) ==
    /\ asm = "wait"
    /\ apc[k] = "built"
    /\ seen' = [seen EXCEPT ![k] = ingresses]
    /\ apc' = [apc EXCEPT ![k] = "read"]
    /\ UNCHANGED <<restVars, ALBIngresses, syncVars, readVars, loadBalancers, ingresses,
                   asm, chunkVars>>

\* Line 304, second half: the slice with the new element is stored into
\* ingresses; wg.Done().
AsmWrite(k) ==
    /\ asm = "wait"
    /\ apc[k] = "read"
    /\ ingresses' = Append(seen[k], NewALBIngressFromAWSLoadBalancer(loadBalancers[k]))
    /\ apc' = [apc EXCEPT ![k] = "done"]
    /\ UNCHANGED <<restVars, ALBIngresses, syncVars, readVars, loadBalancers, seen, asm,
                   chunkVars>>

\* Lines 307-311: wg.Wait() and the assignment to ac.ALBIngresses.
AsmFinish ==
    /\ asm = "wait"
    /\ \A k \in 1..Len(apc) : apc[k] = "done"
    /\ ALBIngresses' = ingresses
    /\ asm' = "done"
    /\ UNCHANGED <<restVars, syncVars, readVars, loadBalancers, ingresses, seen, apc,
                   chunkVars>>

NextAssemble ==
    \/ AsmSpawn
    \/ \E k \in 1..Len(apc) : AsmBuild(k)
    \/ \E k \in 1..Len(apc) : AsmRead(k)
    \/ \E k \in 1..Len(apc) : AsmWrite(k)
    \/ AsmFinish

SpecAssemble == InitAssemble /\ [][NextAssemble]_vars

(***************************************************************************)
(* util.Chunk (pkg/util/types/awsstringslice.go).                          *)
(***************************************************************************)
Abs(x) == IF x < 0 THEN -x ELSE x

\* Go's integer division truncates toward zero (b # 0).
GoDiv(a, b) ==
    IF (a >= 0) = (b > 0) THEN Abs(a) \div Abs(b) ELSE -(Abs(a) \div Abs(b))

\* The chunk size rounded down instead of up.
ChunkSizeFloor(len, size) == GoDiv(len, size)

\* Line 47: chunkSize := (len(s) + size - 1) / size
ChunkSizeOf(len, size) == GoDiv(len + size - 1, size)

Strs == {"a", "b"}

Slices == UNION {[1..n -> Strs] : n \in 0..MaxLen}

\* The loop stops being followed once it has appended this many chunks: a
\* run that gets here never ends.
ChunkCap == MaxLen + 2

InitChunk ==
    /\ ALBIngresses = <<>>
    /\ pc = "idle"
    /\ listing = <<>>
    /\ newList = <<>>
    /\ deletable = <<>>
    /\ tasks = <<>>
    /\ calls = {}
    /\ failed = {}
    /\ prevSet = <<>>
    /\ repeat = FALSE
    /\ w = <<>>
    /\ wBusy = {}
    /\ loadBalancers = <<>>
    /\ ingresses = <<>>
    /\ seen = <<>>
    /\ apc = <<>>
    /\ asm = "done"
    /\ cs \in Slices
    /\ csize \in (-MaxSize)..MaxSize
    /\ chunkSize = 0
    /\ ci = 0
    /\ chunks = <<>>
    /\ cpc = "call"
    /\ RestIdle

\* Lines 46-49: the division faults when size is 0.
ChunkCall ==
    /\ cpc = "call"
    /\ IF csize = 0
       THEN cpc' = "panic" /\ chunkSize' = chunkSize
       ELSE cpc' = "loop" /\ chunkSize' = ChunkSizeOf(Len(cs), csize)
    /\ ci' = 0
    /\ chunks' = <<>>
    /\ UNCHANGED <<restVars, ALBIngresses, syncVars, readVars, asmVars, cs, csize>>

\* Lines 49-55: one iteration; s[i:end] faults when end < i.
ChunkLoop ==
    /\ cpc = "loop"
    /\ ci < Len(cs)
    /\ Len(chunks) < ChunkCap
    /\ LET end == IF ci + chunkSize > Len(cs) THEN Len(cs) ELSE ci + chunkSize
       IN  IF end < ci
           THEN cpc' = "panic" /\ chunks' = chunks /\ ci' = ci
           ELSE /\ chunks' = Append(chunks, SubSeq(cs, ci + 1, end))
                /\ ci' = ci + chunkSize
                /\ cpc' = cpc
    /\ UNCHANGED <<restVars, ALBIngresses, syncVars, readVars, asmVars, cs, csize, chunkSize>>

\* Lines 49 and 56: the loop condition fails and chunks is returned.
ChunkReturn ==
    /\ cpc = "loop"
    /\ ci >= Len(cs)
    /\ cpc' = "done"
    /\ UNCHANGED <<restVars, ALBIngresses, syncVars, readVars, asmVars, cs, csize, chunkSize,
                   ci, chunks>>

NextChunk ==
    \/ ChunkCall
    \/ ChunkLoop
    \/ ChunkReturn

SpecChunk == InitChunk /\ [][NextChunk]_vars

(***************************************************************************)
(* Properties of the sync cycle.                                           *)
(***************************************************************************)
\* The new list as lines 97-121 built it, before deletable was appended.
Built == SubSeq(newList, 1, Len(newList) - Len(deletable))

DeclIds == {listing[k].id : k \in 1..Len(listing)}

\* Every reconcile goroutine of the cycle has finished.
AllDone == pc = "wait" /\ \A k \in 1..Len(tasks) : tasks[k] = "done"

Entries(list, id) == {k \in 1..Len(list) : list[k].id = id}

\* C1, as claimed: StateHandler never writes a set of which a resource is
\* still to be reconciled in the running cycle.
C1_ReadersSeeOnlyReconciled == w # <<>> => wBusy = {}

\* C1, amended: ac.ALBIngresses is replaced by the merged new set (line 133)
\* before the reconcile tasks are started, so while a task is outstanding
\* the visible set is the set being reconciled; a response that shows
\* resources still to be reconciled was written after that assignment.
C1_CommittedBeforeReconcile ==
    /\ pc \in {"spawn", "wait"} =>
          /\ Len(ALBIngresses) = Len(newList)
          /\ \A k \in 1..Len(newList) : ALBIngresses[k].id = newList[k].id
    /\ pc \in {"diff", "commit"} =>
          /\ Len(ALBIngresses) = Len(prevSet)
          /\ \A k \in 1..Len(prevSet) : ALBIngresses[k].id = prevSet[k].id
    /\ (w # <<>> /\ wBusy # {}) =>
          /\ pc \in {"spawn", "wait"}
          /\ wBusy \subseteq IdsOf(w[1])
          /\ IdsOf(w[1]) = IdsOf(newList)

C1_Witness ==
    /\ pc = "wait"
    /\ w # <<>>
    /\ wBusy # {}
    /\ \E k \in 1..Len(tasks) : tasks[k] = "done"
    /\ IdsOf(prevSet) # IdsOf(w[1])

\* C2: after the diff, every ingress of the previous set that is not
\* tainted, has a LoadBalancer and whose identity is not in the new list is
\* exactly once in deletable, and is appended to the new list with its
\* desired state stripped.
C2_DiffComplete ==
    pc = "commit" =>
        \A k \in 1..Len(prevSet) :
            (/\ ~prevSet[k].Tainted
             /\ prevSet[k].LoadBalancer # Nil
             /\ prevSet[k].id \notin IdsOf(Built)) =>
                /\ Cardinality(Entries(deletable, prevSet[k].id)) = 1
                /\ \E j \in (Len(Built) + 1)..Len(newList) :
                      newList[j] = StripDesiredState(prevSet[k])

C2_Witness ==
    /\ pc = "commit"
    /\ Len(deletable) >= 2
    /\ \E k \in 1..Len(prevSet) : prevSet[k].Tainted
    /\ \E k \in 1..Len(prevSet) :
          /\ prevSet[k].id \in IdsOf(deletable)
          /\ prevSet[k].DesiredSpec # Nil

\* C3, as claimed: no identity of a declaration listed in this cycle is in
\* deletable.
C3_NoListedIdentityDeleted == pc = "commit" => IdsOf(deletable) \cap DeclIds = {}

\* C3, amended: no identity of the new list built in this cycle is in
\* deletable, whatever the state of the ingress of that identity in the
\* previous set.
C3_DiffSafe == pc = "commit" => IdsOf(deletable) \cap IdsOf(Built) = {}

C3_Witness ==
    /\ pc = "commit"
    /\ deletable # <<>>
    /\ \E k \in 1..Len(prevSet) :
          /\ prevSet[k].id \in IdsOf(Built)
          /\ ~prevSet[k].Tainted
          /\ prevSet[k].LoadBalancer # Nil

\* C4, as claimed: a tainted ingress is never in deletable, and a tainted
\* ingress built in a cycle never takes the place of an ingress of the same
\* identity that has a LoadBalancer.
C4_TaintedNeverReplaces ==
    /\ pc \in {"commit", "spawn"} =>
          \A k \in 1..Len(prevSet) :
              prevSet[k].Tainted => prevSet[k].id \notin IdsOf(deletable)
    /\ pc = "spawn" =>
          \A k \in 1..Len(prevSet) :
              (~prevSet[k].Tainted /\ prevSet[k].LoadBalancer # Nil) =>
                  \A j \in Entries(ALBIngresses, prevSet[k].id) :
                      ~ALBIngresses[j].Tainted

\* C4, amended: a tainted ingress is never in deletable and no entry of
\* deletable is tainted; a tainted ingress built in a cycle is appended to
\* the new list and from line 133 on is the entry of its identity in
\* ac.ALBIngresses, also when the previous entry had a LoadBalancer.
C4_TaintedNeverDeleted ==
    /\ pc \in {"commit", "spawn"} =>
          /\ \A k \in 1..Len(prevSet) :
                prevSet[k].Tainted => prevSet[k].id \notin IdsOf(deletable)
          /\ \A j \in 1..Len(deletable) :
                ~deletable[j].Tainted /\ deletable[j].DesiredSpec = Nil
    /\ pc = "spawn" =>
          \A k \in 1..Len(listing) :
              (IsValid(listing[k]) /\ listing[k].build = "err") =>
                  /\ Cardinality(Entries(ALBIngresses, listing[k].id)) = 1
                  /\ \A j \in Entries(ALBIngresses, listing[k].id) :
                        ALBIngresses[j].Tainted

C4_Witness ==
    /\ pc = "spawn"
    /\ deletable # <<>>
    /\ \E k \in 1..Len(prevSet) :
          /\ prevSet[k].Tainted
          /\ prevSet[k].LoadBalancer # Nil
          /\ prevSet[k].id \notin IdsOf(Built)
    /\ \E k \in 1..Len(prevSet) :
          /\ ~prevSet[k].Tainted
          /\ prevSet[k].LoadBalancer # Nil
          /\ \E j \in Entries(ALBIngresses, prevSet[k].id) : ALBIngresses[j].Tainted

\* The scenario of C5 has been run: the previous set held exactly the
\* identities a and b, both untainted and with a LoadBalancer, the listing
\* declares exactly b and c, every declaration yields an untainted ingress,
\* and every reconcile has finished with success.
Scenario1(a, b, c) ==
    /\ AllDone
    /\ failed = {}
    /\ a # b /\ b # c /\ a # c
    /\ IdsOf(prevSet) = {a, b}
    /\ \A k \in 1..Len(prevSet) :
          ~prevSet[k].Tainted /\ prevSet[k].LoadBalancer # Nil
    /\ DeclIds = {b, c}
    /\ \A k \in 1..Len(listing) : IsValid(listing[k]) /\ listing[k].build = "ok"

\* C5, as claimed: after the scenario a delete was issued for a, a create
\* for c, no delete for b, and the authoritative set holds exactly the
\* identities b and c.
C5_Scenario1CommitsBC ==
    \A a, b, c \in Ids :
        Scenario1(a, b, c) =>
            /\ <<a, "delete">> \in calls
            /\ <<c, "create">> \in calls
            /\ <<b, "delete">> \notin calls
            /\ IdsOf(ALBIngresses) = {b, c}

\* C5, amended: after the scenario a delete was issued for a, a create for
\* c and no delete or create for b; the authoritative set holds b and c
\* followed by the deleted a, which has neither desired state nor
\* LoadBalancer.
C5_Scenario1KeepsDeleted ==
    \A a, b, c \in Ids :
        Scenario1(a, b, c) =>
            /\ <<a, "delete">> \in calls
            /\ <<c, "create">> \in calls
            /\ <<b, "delete">> \notin calls
            /\ <<b, "create">> \notin calls
            /\ IdsOf(ALBIngresses) = {a, b, c}
            /\ Len(ALBIngresses) = 3
            /\ ALBIngresses[3] = NewALBIngress(a)
            /\ \A k \in 1..2 :
                  /\ ALBIngresses[k].LoadBalancer # Nil
                  /\ ALBIngresses[k].LoadBalancer = ALBIngresses[k].DesiredSpec

C5_Witness == \E a, b, c \in Ids : Scenario1(a, b, c) /\ a < b /\ b < c

\* C6: one reconcile task for each entry of the merged new set; a task that
\* has failed leaves every task that has not run able to run; when all have
\* finished, every entry whose call did not fail is in the state it asked
\* for; and OnUpdate returns only when every task has finished.
C6_TasksIsolatedAndJoined ==
    /\ [](pc = "wait" =>
            /\ Len(tasks) = Len(newList)
            /\ Len(tasks) = Len(ALBIngresses)
            /\ \A k \in 1..Len(tasks) :
                  tasks[k] = "ready" => ENABLED ReconcileTask(k))
    /\ [](AllDone =>
            \A k \in 1..Len(ALBIngresses) :
                ALBIngresses[k].id \notin failed =>
                    ReconcileOp(ALBIngresses[k]) = "none")
    /\ [][pc = "wait" /\ pc' # "wait" =>
            AllDone /\ pc' = "idle" /\ ALBIngresses' = ALBIngresses]_vars

C6_Witness ==
    /\ AllDone
    /\ Len(tasks) >= 3
    /\ failed # {}
    /\ \E c \in calls : c[1] \notin failed

\* C7: in a cycle that lists what the previous cycle listed, after a cycle
\* in which every reconcile succeeded, nothing is put in deletable and no
\* create, modify or delete call is issued.
C7_Idempotent ==
    (repeat /\ pc # "idle") => (deletable = <<>> /\ calls = {})

C7_Witness ==
    /\ repeat
    /\ AllDone
    /\ Len(ALBIngresses) >= 2
    /\ \E k \in 1..Len(ALBIngresses) :
          /\ ~ALBIngresses[k].Tainted
          /\ ALBIngresses[k].LoadBalancer # Nil
          /\ ALBIngresses[k].DesiredSpec # Nil
    /\ \E k \in 1..Len(prevSet) :
          prevSet[k].id \notin DeclIds

(***************************************************************************)
(* Properties of AssembleIngresses.                                        *)
(***************************************************************************)
\* C8: when AssembleIngresses has returned, ac.ALBIngresses holds exactly
\* one ingress for each load balancer GetClusterLoadBalancers returned.
C8_AssembleExact ==
    asm = "done" =>
        /\ Len(ALBIngresses) = Len(loadBalancers)
        /\ \A k \in 1..Len(loadBalancers) :
              Cardinality(Entries(ALBIngresses, loadBalancers[k].id)) = 1

(***************************************************************************)
(* Properties of Chunk.                                                    *)
(***************************************************************************)
RECURSIVE Concat(_)
Concat(groups) ==
    IF groups = <<>> THEN <<>> ELSE Head(groups) \o Concat(Tail(groups))

\* The least q with q * b >= a (a >= 0, b >= 1).
Ceil(a, b) == CHOOSE q \in 0..a : q * b >= a /\ (q = 0 \/ (q - 1) * b < a)

\* C9: for size >= 1 Chunk does not fault, and the groups it returns
\* concatenate to s, each group being the next elements of s in order;
\* their number is ceil(len(s) / ceil(len(s) / size)), and 0 for an empty s.
C9_ChunkRoundTrip ==
    csize >= 1 =>
        /\ cpc # "panic"
        /\ Len(chunks) <= Len(cs)
        /\ cpc = "done" =>
              /\ Concat(chunks) = cs
              /\ \A k \in 1..Len(chunks) :
                    chunks[k] = SubSeq(cs, Len(Concat(SubSeq(chunks, 1, k - 1))) + 1,
                                       Len(Concat(SubSeq(chunks, 1, k))))
              /\ Len(chunks) = IF Len(cs) = 0 THEN 0
                               ELSE Ceil(Len(cs), Ceil(Len(cs), csize))

C9_Witness ==
    /\ cpc = "done"
    /\ csize = 3
    /\ Len(cs) = 4
    /\ Len(chunks) = 2
    /\ chunks[1] # chunks[2]

\* C10: for size <= 0 Chunk faults at once: it completes no iteration of
\* its loop and returns nothing.
C10_FailsFast ==
    csize <= 0 => (cpc # "done" /\ chunks = <<>>)

(***************************************************************************)
(* AWSStringSlice.Hash (pkg/util/types/awsstringslice.go).  A string is    *)
(* the sequence of its bytes; the bytes are 1 and 2.                       *)
(***************************************************************************)
\* The controller, AssembleIngresses and Chunk are not running.
CtlIdle ==
    /\ ALBIngresses = <<>>
    /\ pc = "idle"
    /\ listing = <<>>
    /\ newList = <<>>
    /\ deletable = <<>>
    /\ tasks = <<>>
    /\ calls = {}
    /\ failed = {}
    /\ prevSet = <<>>
    /\ repeat = FALSE
    /\ w = <<>>
    /\ wBusy = {}

AsmIdle ==
    /\ loadBalancers = <<>>
    /\ ingresses = <<>>
    /\ seen = <<>>
    /\ apc = <<>>
    /\ asm = "done"

ChunkIdle ==
    /\ cs = <<>>
    /\ csize = 1
    /\ chunkSize = 0
    /\ ci = 0
    /\ chunks = <<>>
    /\ cpc = "done"

Bytes == {1, 2}

Strings == UNION {[1..n -> Bytes] : n \in 0..MaxStrLen}

StringSlices == UNION {[1..n -> Strings] : n \in 0..MaxHashLen}

RECURSIVE StrLess(_, _)
\* Go's < on strings: the order of the bytes, a proper prefix first.
StrLess(x, y) ==
    IF y = <<>> THEN FALSE
    ELSE IF x = <<>> THEN TRUE
    ELSE IF Head(x) # Head(y) THEN Head(x) < Head(y)
    ELSE StrLess(Tail(x), Tail(y))

\* Line 17: Less(i, j) is *n[i] < *n[j].
Less(n, i, j) == StrLess(n[i], n[j])

RECURSIVE Insert(_, _)
Insert(sorted, x) ==
    IF sorted = <<>> THEN <<x>>
    ELSE IF StrLess(x, Head(sorted)) THEN <<x>> \o sorted
    ELSE <<Head(sorted)>> \o Insert(Tail(sorted), x)

RECURSIVE SortSlice(_)
\* sort.Sort(a), line 35: the elements of a in an order in which Less holds
\* of no later and earlier element.  Equal strings are interchangeable.
SortSlice(a) ==
    IF a = <<>> THEN <<>>
    ELSE Insert(SortSlice(SubSeq(a, 1, Len(a) - 1)), a[Len(a)])

RECURSIVE Written(_)
\* Lines 36-39: the bytes written to the hasher, element after element.
Written(a) == IF a = <<>> THEN <<>> ELSE Head(a) \o Written(Tail(a))

\* Line 40: hex of the MD5 sum, taken as a function that tells any two byte
\* strings apart.
Digest(bytes) == [md5 |-> bytes]

\* The written bytes without the sort of line 35.
HashUnsorted(a) == [slice |-> a, out |-> Digest(Written(a))]

\* a.Hash(): the slice as the call leaves it, and the result.
Hash(a) == [slice |-> SortSlice(a), out |-> Digest(Written(SortSlice(a)))]

InitHash ==
    /\ CtlIdle
    /\ AsmIdle
    /\ ChunkIdle
    /\ SvcIdle
    /\ OvlIdle
    /\ ha \in StringSlices
    /\ hb \in StringSlices
    /\ ha0 = ha
    /\ hb0 = hb
    /\ hda = <<>>
    /\ hdb = <<>>
    /\ hda2 = <<>>
    /\ hpc = "a"

\* a.Hash()
HashA ==
    /\ hpc = "a"
    /\ ha' = Hash(ha).slice
    /\ hda' = <<Hash(ha).out>>
    /\ hpc' = "b"
    /\ UNCHANGED <<ALBIngresses, syncVars, readVars, asmVars, chunkVars, svcVars, ovlVars,
                   hb, ha0, hb0, hdb, hda2>>

\* b.Hash()
HashB ==
    /\ hpc = "b"
    /\ hb' = Hash(hb).slice
    /\ hdb' = <<Hash(hb).out>>
    /\ hpc' = "again"
    /\ UNCHANGED <<ALBIngresses, syncVars, readVars, asmVars, chunkVars, svcVars, ovlVars,
                   ha, ha0, hb0, hda, hda2>>

\* a.Hash(), a second time on the same slice
HashAgain ==
    /\ hpc = "again"
    /\ ha' = Hash(ha).slice
    /\ hda2' = <<Hash(ha).out>>
    /\ hpc' = "done"
    /\ UNCHANGED <<ALBIngresses, syncVars, readVars, asmVars, chunkVars, svcVars, ovlVars,
                   hb, ha0, hb0, hda, hdb>>

NextHash ==
    \/ HashA
    \/ HashB
    \/ HashAgain

SpecHash == InitHash /\ [][NextHash]_vars

\* The number of elements of the slice equal to x.
Count(a, x) == Cardinality({k \in 1..Len(a) : a[k] = x})

\* The slices hold the same strings, each as many times.
SameMultiset(a, b) == \A x \in Strings : Count(a, x) = Count(b, x)

Sorted(a) == \A j, k \in 1..Len(a) : j < k => ~StrLess(a[k], a[j])

\* C11: Hash returns the same digest for a slice and for any permutation
\* of it.
C11_HashPermutationInvariant ==
    (hpc \in {"again", "done"} /\ SameMultiset(ha0, hb0)) => hda = hdb

C11_Witness ==
    /\ hpc = "again"
    /\ SameMultiset(ha0, hb0)
    /\ ha0 # hb0
    /\ ~Sorted(ha0)

\* C12: with a digest that tells any two byte strings apart, Hash returns
\* different digests for two slices that differ as multisets.
C12_HashTellsMultisetsApart ==
    (hpc \in {"again", "done"} /\ ~SameMultiset(ha0, hb0)) => hda # hdb

\* C20: a.Hash() leaves in a the elements it held, in ascending order, and
\* a second call returns the same digest and leaves a as it is.
C20_HashSortsReceiver ==
    /\ [](hpc \in {"b", "again", "done"} =>
            /\ SameMultiset(ha, ha0)
            /\ Sorted(ha))
    /\ [][hpc = "again" => (ha' = ha /\ hda2' = hda)]_vars

C20_Witness ==
    /\ hpc = "done"
    /\ ~Sorted(ha0)
    /\ ha # ha0
    /\ hda2 = hda

(***************************************************************************)
(* ALBController.GetServiceNodePort.                                       *)
(***************************************************************************)
ServiceKeys == {"ns/svc", "ns/other"}

\* The entries of Spec.Ports: Port and NodePort.
PortEntries == [Port : {80, 443}, NodePort : {30080, 30443}]

\* What the store can hold under a key: nothing, or a service.
Absent == [exists |-> FALSE, type |-> "", ports |-> <<>>]

Services ==
    [exists : {TRUE},
     type : {"NodePort", "ClusterIP"},
     ports : UNION {[1..n -> PortEntries] : n \in 0..MaxPorts}]

\* GetServiceNodePort without the test of the service type (lines 231-234).
GetServiceNodePortAnyType(st, serviceKey, backendPort) ==
    LET item == st[serviceKey]
        hits == {k \in 1..Len(item.ports) : item.ports[k].Port = backendPort}
    IN  IF ~item.exists THEN [port |-> <<>>, err |-> "NotFound"]
        ELSE IF hits # {}
             THEN [port |-> <<item.ports[CHOOSE k \in hits : \A j \in hits : k <= j].NodePort>>,
                   err |-> "nil"]
             ELSE [port |-> <<>>, err |-> "PortNotFound"]

RECURSIVE FirstPort(_, _)
\* Lines 237-241: the NodePort of the first entry with Port == backendPort.
FirstPort(ports, backendPort) ==
    IF ports = <<>> THEN <<>>
    ELSE IF Head(ports).Port = backendPort THEN <<Head(ports).NodePort>>
    ELSE FirstPort(Tail(ports), backendPort)

\* Lines 223-244: the returned pointer (<<>> for nil) and the error.
GetServiceNodePort(st, serviceKey, backendPort) ==
    LET item == st[serviceKey]
    IN  IF ~item.exists THEN [port |-> <<>>, err |-> "NotFound"]
        ELSE IF item.type # "NodePort"
             THEN [port |-> <<>>, err |-> "WrongServiceType"]
        ELSE IF FirstPort(item.ports, backendPort) # <<>>
             THEN [port |-> FirstPort(item.ports, backendPort), err |-> "nil"]
             ELSE [port |-> <<>>, err |-> "PortNotFound"]

InitSvc ==
    /\ CtlIdle
    /\ AsmIdle
    /\ ChunkIdle
    /\ HashIdle
    /\ OvlIdle
    /\ store \in [ServiceKeys -> Services \cup {Absent}]
    /\ store0 = store
    /\ gkey \in ServiceKeys
    /\ gport \in {80, 443}
    /\ gres = <<>>
    /\ gpc = "call"

\* A call of ac.GetServiceNodePort(serviceKey, backendPort).
GetServiceNodePortCall ==
    /\ gpc = "call"
    /\ gres' = <<GetServiceNodePort(store, gkey, gport)>>
    /\ gpc' = "done"
    /\ UNCHANGED <<ALBIngresses, syncVars, readVars, asmVars, chunkVars, hashVars, ovlVars,
                   store, store0, gkey, gport>>

NextSvc == GetServiceNodePortCall

SpecSvc == InitSvc /\ [][NextSvc]_vars

\* C13: GetServiceNodePort returns an error and no port for an absent
\* service, for a service that is not of type NodePort and for a service
\* without an entry of the port; otherwise the NodePort of the first entry
\* of the port and no error; the store is as it was.
C13_GetServiceNodePort ==
    gpc = "done" =>
        LET item == store0[gkey]
            hits == {k \in 1..Len(item.ports) : item.ports[k].Port = gport}
            res == gres[1]
        IN  /\ store = store0
            /\ ~item.exists => (res.err = "NotFound" /\ res.port = <<>>)
            /\ (item.exists /\ item.type # "NodePort") =>
                  (res.err = "WrongServiceType" /\ res.port = <<>>)
            /\ (item.exists /\ item.type = "NodePort" /\ hits = {}) =>
                  (res.err = "PortNotFound" /\ res.port = <<>>)
            /\ (item.exists /\ item.type = "NodePort" /\ hits # {}) =>
                  /\ res.err = "nil"
                  /\ \E k \in hits :
                        /\ \A j \in hits : k <= j
                        /\ res.port = <<item.ports[k].NodePort>>

C13_Witness ==
    /\ gpc = "done"
    /\ gres[1].err = "nil"
    /\ Len(store[gkey].ports) = 2
    /\ store[gkey].ports[1].Port = store[gkey].ports[2].Port
    /\ store[gkey].ports[1].NodePort # store[gkey].ports[2].NodePort
    /\ \E k \in ServiceKeys : ~store[k].exists

(***************************************************************************)
(* Chunk as a call that runs to its end: a call that has started takes     *)
(* its next step.                                                          *)
(***************************************************************************)
SpecChunkFair == InitChunk /\ [][NextChunk]_vars /\ WF_vars(NextChunk)

\* C19: for size >= 1 Chunk returns; every group built is non-empty and
\* holds at most ceil(len(s) / size) elements, and there are never more
\* groups than size.
C19_ChunkBounded ==
    /\ [](csize >= 1 =>
            /\ cpc # "panic"
            /\ Len(chunks) <= csize
            /\ \A k \in 1..Len(chunks) :
                  /\ Len(chunks[k]) >= 1
                  /\ Len(chunks[k]) <= Ceil(Len(cs), csize))
    /\ (csize >= 1) ~> (cpc = "done")

C19_Witness ==
    /\ cpc = "done"
    /\ csize = 2
    /\ Len(cs) = 3
    /\ Len(chunks) = 2
    /\ Len(chunks[1]) = 2
    /\ Len(chunks[2]) = 1

(***************************************************************************)
(* Further properties of the OnUpdate cycle.                               *)
(***************************************************************************)
\* C14: an ingress of the previous set is absent from the set the cycle
\* makes authoritative only if its LoadBalancer is nil and its identity is
\* not in the new list: an ingress that has a LoadBalancer is kept.
C14_DroppedOnlyWhenGone ==
    pc \in {"spawn", "wait"} =>
        \A k \in 1..Len(prevSet) :
            prevSet[k].id \notin IdsOf(ALBIngresses) =>
                /\ prevSet[k].LoadBalancer = Nil
                /\ prevSet[k].id \notin IdsOf(Built)

\* C15: an ingress of the previous set that has no LoadBalancer and whose
\* identity is not in the new list is not appended: it is not in
\* deletable, not in the merged list, has no reconcile task and no call in
\* the cycle, and is not in ac.ALBIngresses from line 133 on.
C15_GoneIsNotCarried ==
    pc \in {"commit", "spawn", "wait"} =>
        \A k \in 1..Len(prevSet) :
            (prevSet[k].LoadBalancer = Nil /\ prevSet[k].id \notin IdsOf(Built)) =>
                /\ prevSet[k].id \notin IdsOf(deletable)
                /\ prevSet[k].id \notin IdsOf(newList)
                /\ \A c \in calls : c[1] # prevSet[k].id
                /\ pc \in {"spawn", "wait"} =>
                      /\ prevSet[k].id \notin IdsOf(ALBIngresses)
                      /\ \A j \in 1..Len(tasks) :
                            ALBIngresses[j].id # prevSet[k].id

C15_Witness ==
    /\ AllDone
    /\ calls # {}
    /\ deletable # <<>>
    /\ \E k \in 1..Len(prevSet) :
          /\ prevSet[k].LoadBalancer = Nil
          /\ prevSet[k].id \notin IdsOf(Built)

\* C16, as claimed: every declaration of the listing that passes the class
\* check has an entry in the new list.
C16_EveryDeclarationYieldsEntry ==
    pc = "diff" =>
        \A k \in 1..Len(listing) :
            IsValid(listing[k]) => listing[k].id \in IdsOf(newList)

\* C16, amended: every declaration that passes the class check and for
\* which NewALBIngressFromIngress returns an ingress has exactly one entry
\* in the new list, Tainted exactly when an error came with it; a
\* declaration for which nothing is returned has no entry; and the cycle
\* goes on to the diff whatever the outcomes were.
C16_ErrorTaintsNilSkips ==
    pc = "diff" =>
        /\ \A k \in 1..Len(listing) :
              (IsValid(listing[k]) /\ listing[k].build # "nil") =>
                  /\ Cardinality(Entries(newList, listing[k].id)) = 1
                  /\ \A j \in Entries(newList, listing[k].id) :
                        newList[j].Tainted = (listing[k].build = "err")
        /\ \A k \in 1..Len(listing) :
              (~IsValid(listing[k]) \/ listing[k].build = "nil") =>
                  listing[k].id \notin IdsOf(newList)
        /\ ENABLED Diff

C16_Witness ==
    /\ pc = "diff"
    /\ \E k \in 1..Len(listing) : IsValid(listing[k]) /\ listing[k].build = "err"
    /\ \E k \in 1..Len(listing) : IsValid(listing[k]) /\ listing[k].build = "nil"
    /\ \E k \in 1..Len(listing) : IsValid(listing[k]) /\ listing[k].build = "ok"

\* The identities of the entries of list are pairwise distinct.
Distinct(list) ==
    \A i, j \in 1..Len(list) : i # j => list[i].id # list[j].id

\* C18: with a listing of pairwise distinct identities and a previous set
\* of pairwise distinct identities, no two entries of the merged list or
\* of ac.ALBIngresses share an identity, during the cycle and after it.
C18_IdentityUnique ==
    /\ Distinct(listing)
    /\ Distinct(prevSet)
    /\ Distinct(newList)
    /\ Distinct(ALBIngresses)

C18_Witness ==
    /\ AllDone
    /\ Len(ALBIngresses) = 3
    /\ Len(deletable) >= 1
    /\ \E k \in 1..Len(prevSet) :
          /\ prevSet[k].id \in IdsOf(Built)
          /\ prevSet[k].LoadBalancer # Nil
          /\ ~prevSet[k].Tainted

(***************************************************************************)
(* Two invocations of OnUpdate.  OnUpdate takes no lock; nothing in it     *)
(* keeps a second invocation from starting before the first has returned.  *)
(* The entries of ac.ALBIngresses are pointers: here ALBIngresses and the  *)
(* lists of the invocations hold pointers <<creator, id>> (creator 0: the  *)
(* set before the invocations, creator i: built by invocation i), and heap *)
(* holds the ALBIngress each of them points to.                            *)
(***************************************************************************)
Invocations == {1, 2}

\* The identities the two invocations deal with.
SharedIds == 1..(NumIds - 1)

OverlapListings ==
    {l \in Listings : \A k \in 1..Len(l) : l[k].id \in SharedIds}

\* The ALBIngresses the pointers of list point to.
Deref(h, list) == [k \in 1..Len(list) |-> h[list[k]]]

\* The pointers of invocation i to the ingresses recs it has built.
PointersOf(i, recs) == [k \in 1..Len(recs) |-> <<i, recs[k].id>>]

\* The heap with the ingresses recs that invocation i has built.
Alloc(h, i, recs) ==
    [a \in DOMAIN h \cup {<<i, recs[k].id>> : k \in 1..Len(recs)} |->
        IF a[1] = i /\ a[2] \in IdsOf(recs)
        THEN recs[CHOOSE k \in 1..Len(recs) : recs[k].id = a[2]]
        ELSE h[a]]

\* The invocation has started and not returned.
Active(j) == inv[j].pc \notin {"idle", "returned"}

\* The commit or the reconcile of the invocation is outstanding: it has
\* computed its merged list and not returned.
Outstanding(j) == inv[j].pc \in {"commit", "spawn", "wait"}

\* Invocation i reads or writes ac.ALBIngresses.
Touch(i) ==
    outstanding' = (outstanding \/ \E j \in Invocations \ {i} : Outstanding(j))

SyncIdle ==
    /\ pc = "idle"
    /\ listing = <<>>
    /\ newList = <<>>
    /\ deletable = <<>>
    /\ tasks = <<>>
    /\ calls = {}
    /\ failed = {}
    /\ prevSet = <<>>
    /\ repeat = FALSE
    /\ w = <<>>
    /\ wBusy = {}

InitOverlap ==
    /\ SyncIdle
    /\ AsmIdle
    /\ ChunkIdle
    /\ HashIdle
    /\ SvcIdle
    /\ \E S \in SUBSET SharedIds, c \in Configs :
          /\ heap = Alloc(<<>>, 0, Discovered(S, 1, c))
          /\ ALBIngresses = PointersOf(0, Discovered(S, 1, c))
    /\ inv = [i \in Invocations |->
                [pc |-> "idle", newList |-> <<>>, deletable |-> <<>>,
                 tasks |-> <<>>, readB |-> <<>>, readD |-> <<>>]]
    /\ order = <<>>
    /\ ac0 = ALBIngresses
    /\ concurrent = FALSE
    /\ outstanding = FALSE

\* OnUpdate, lines 94-121, of invocation i: ExistingIngresses is
\* ac.ALBIngresses as it is now.
InvBuild(i) ==
    /\ inv[i].pc = "idle"
    /\ \E l \in OverlapListings :
          LET built == BuildList(l, Deref(heap, ALBIngresses), <<>>)
          IN  /\ heap' = Alloc(heap, i, built)
              /\ inv' = [inv EXCEPT ![i] = [@ EXCEPT !.pc = "diff",
                                                     !.newList = PointersOf(i, built),
                                                     !.readB = ALBIngresses]]
    /\ concurrent' = (concurrent \/ \E j \in Invocations \ {i} : Active(j))
    /\ Touch(i)
    /\ UNCHANGED <<ALBIngresses, syncVars, readVars, asmVars, chunkVars, hashVars,
                   svcVars, order, ac0>>

\* OnUpdate, lines 123-129, of invocation i: ingressToDelete ranges over
\* ac.ALBIngresses as it is now and strips the ingresses it appends.
InvDiff(i) ==
    /\ inv[i].pc = "diff"
    /\ LET list == Deref(heap, inv[i].newList)
           Q(a) == Qualifies(heap[a], list)
           del == SelectSeq(ALBIngresses, Q)
       IN  /\ heap' = [a \in DOMAIN heap |->
                          IF Q(a) /\ \E k \in 1..Len(ALBIngresses) : ALBIngresses[k] = a
                          THEN StripDesiredState(heap[a]) ELSE heap[a]]
           /\ inv' = [inv EXCEPT ![i] = [@ EXCEPT !.pc = "commit",
                                                  !.deletable = del,
                                                  !.newList = @ \o del,
                                                  !.readD = ALBIngresses]]
    /\ Touch(i)
    /\ UNCHANGED <<ALBIngresses, syncVars, readVars, asmVars, chunkVars, hashVars,
                   svcVars, order, ac0, concurrent>>

\* InvCommit without the assignment of line 133.
InvCommitNothing(i) ==
    /\ inv[i].pc = "commit"
    /\ inv' = [inv EXCEPT ![i] = [@ EXCEPT !.pc = "spawn"]]
    /\ order' = Append(order, i)
    /\ Touch(i)
    /\ UNCHANGED <<ALBIngresses, syncVars, readVars, asmVars, chunkVars, hashVars,
                   svcVars, heap, ac0, concurrent>>

\* OnUpdate, lines 131-133, of invocation i.
InvCommit(i) ==
    /\ inv[i].pc = "commit"
    /\ ALBIngresses' = inv[i].newList
    /\ inv' = [inv EXCEPT ![i] = [@ EXCEPT !.pc = "spawn"]]
    /\ order' = Append(order, i)
    /\ Touch(i)
    /\ UNCHANGED <<syncVars, readVars, asmVars, chunkVars, hashVars, svcVars,
                   heap, ac0, concurrent>>

\* OnUpdate, lines 137-139, of invocation i: one goroutine for each entry
\* of ac.ALBIngresses as it is now.
InvSpawn(i) ==
    /\ inv[i].pc = "spawn"
    /\ inv' = [inv EXCEPT ![i] =
                 [@ EXCEPT !.pc = "wait",
                           !.tasks = [k \in 1..Len(ALBIngresses) |->
                                        [ptr |-> ALBIngresses[k], st |-> "ready"]]]]
    /\ Touch(i)
    /\ UNCHANGED <<ALBIngresses, syncVars, readVars, asmVars, chunkVars, hashVars,
                   svcVars, heap, order, ac0, concurrent>>

\* The goroutine k of invocation i, lines 140-143.
InvReconcileTask(i, k) ==
    /\ inv[i].pc = "wait"
    /\ inv[i].tasks[k].st = "ready"
    /\ \E ok \in BOOLEAN :
          heap' = [heap EXCEPT ![inv[i].tasks[k].ptr] = Reconcile(@, ok)]
    /\ inv' = [inv EXCEPT ![i] = [@ EXCEPT !.tasks[k].st = "done"]]
    /\ UNCHANGED <<ALBIngresses, syncVars, readVars, asmVars, chunkVars, hashVars,
                   svcVars, order, ac0, concurrent, outstanding>>

\* OnUpdate, lines 145-147, of invocation i.
InvReturn(i) ==
    /\ inv[i].pc = "wait"
    /\ \A k \in 1..Len(inv[i].tasks) : inv[i].tasks[k].st = "done"
    /\ inv' = [inv EXCEPT ![i] = [@ EXCEPT !.pc = "returned", !.tasks = <<>>]]
    /\ UNCHANGED <<ALBIngresses, syncVars, readVars, asmVars, chunkVars, hashVars,
                   svcVars, heap, order, ac0, concurrent, outstanding>>

NextOverlap ==
    \E i \in Invocations :
        \/ InvBuild(i)
        \/ InvDiff(i)
        \/ InvCommit(i)
        \/ InvSpawn(i)
        \/ \E k \in 1..Len(inv[i].tasks) : InvReconcileTask(i, k)
        \/ InvReturn(i)

SpecOverlap == InitOverlap /\ [][NextOverlap]_vars

\* Each invocation that has reached line 133 read, in its build and in its
\* ingressToDelete, the list the invocation before it at line 133 assigned
\* (the first of them: the list before the invocations).
Ordered ==
    \A n \in 1..Len(order) :
        LET prev == IF n = 1 THEN ac0 ELSE inv[order[n - 1]].newList
        IN  /\ inv[order[n]].readB = prev
            /\ inv[order[n]].readD = prev

\* C17, as claimed: whatever way the invocations are started, each reads
\* as previous set exactly the set the invocation before it committed, and
\* none reads or writes ac.ALBIngresses while the commit or the reconcile
\* of another is outstanding.
C17_TotallyOrdered == Ordered /\ ~outstanding

\* C17, amended: ac.ALBIngresses is always the list of the latest
\* assignment of line 133; and when no invocation starts before the one
\* before it has returned, each reads as previous set exactly the set the
\* invocation before it committed and none uses ac.ALBIngresses while the
\* commit or the reconcile of another is outstanding.
C17_OrderedWhenSerial ==
    /\ ALBIngresses = IF order = <<>> THEN ac0 ELSE inv[order[Len(order)]].newList
    /\ ~concurrent => (Ordered /\ ~outstanding)

C17_Witness ==
    /\ ~concurrent
    /\ \A i \in Invocations : inv[i].pc = "returned"
    /\ Len(order) = 2
    /\ inv[order[1]].newList # ac0
    /\ inv[order[2]].newList # inv[order[1]].newList
    /\ inv[order[2]].deletable # <<>>
    /\ inv[order[2]].readB = inv[order[1]].newList

====
